---- MODULE Spec2Model ----
(***************************************************************************)
(* Swift temporary-URL issuance of GlanceImageService                       *)
(* (ironic/common/glance_service/v2/image_service.py): the class-level      *)
(* temp-URL cache, its eviction, the configuration validation, the          *)
(* credential resolution and the multiple-container name derivation.        *)
(***************************************************************************)
EXTENDS Integers, Sequences, FiniteSets, TLC

VARIABLES
    CONF,        \* the [glance] options read through CONF.glance
    now,         \* int(time.time())
    _cache,      \* GlanceImageService._cache: image id -> TempUrlCacheElement
    last,        \* observation of the swift_temp_url call that has just
                 \* returned (NoCall once the clock or an option moved on)
    issued,      \* history: URL handed out per image id by a cache-enabled
                 \* call since the last change of configuration/credentials
    threads      \* per worker thread: where it stands inside
                 \* _generate_temp_url and the locals it holds there

vars == <<CONF, now, _cache, last, issued, threads>>

--------------------------------------------------------------------------
(* Bounds *)

MaxTime == 1        \* the clock runs over T0 .. T0 + MaxTime
MaxDuration == 2    \* swift_temp_url_duration ranges over 0 .. MaxDuration
MaxDelay == 1       \* ..._expected_download_start_delay over 0 .. MaxDelay

T0 == 9             \* first clock value (so that timestamps get two digits)

--------------------------------------------------------------------------
(* Strings are sequences of one-character strings. *)

Min(a, b) == IF a < b THEN a ELSE b

HexLower == {"0","1","2","3","4","5","6","7","8","9","a","b","c","d","e","f"}

\* str.lower() on one character
LowerChar(c) ==
    CASE c = "A" -> "a" [] c = "B" -> "b" [] c = "C" -> "c"
      [] c = "D" -> "d" [] c = "E" -> "e" [] c = "F" -> "f"
      [] OTHER -> c

\* str.lower()
Lower(s) == [k \in 1..Len(s) |-> LowerChar(s[k])]

\* s[:n] for n >= 0
Prefix(s, n) == SubSeq(s, 1, Min(n, Len(s)))

\* s.count(c)
Count(s, c) == Cardinality({k \in 1..Len(s) : s[k] = c})

\* str(n) for n >= 0, as a sequence of decimal digits
DigitChar(d) == CASE d = 0 -> "0" [] d = 1 -> "1" [] d = 2 -> "2"
                  [] d = 3 -> "3" [] d = 4 -> "4" [] d = 5 -> "5"
                  [] d = 6 -> "6" [] d = 7 -> "7" [] d = 8 -> "8"
                  [] d = 9 -> "9"

RECURSIVE IntToStr(_)
IntToStr(n) ==
    IF n < 10 THEN <<DigitChar(n)>>
    ELSE IntToStr(n \div 10) \o <<DigitChar(n % 10)>>

DigitVal(c) == CHOOSE d \in 0..9 : DigitChar(d) = c

\* int(s) for a string of decimal digits
RECURSIVE StrToInt(_)
StrToInt(s) ==
    IF Len(s) = 1 THEN DigitVal(s[1])
    ELSE 10 * StrToInt(SubSeq(s, 1, Len(s) - 1)) + DigitVal(s[Len(s)])

--------------------------------------------------------------------------
(* Image identifiers.  An image id is named by a small integer; IdText    *)
(* gives the literal text of the identifier.                               *)

IdText(i) ==
    CASE i = 1 -> <<"3","A","1","B","C","D","E","F","-","0","1","2","3","-","4","5","6","7","-","8","9","A","B","-","C","D","E","F","0","1","2","3","4","5","6","7">>
      [] i = 2 -> <<"3","a","1","b","c","d","e","f","-","0","1","2","3","-","4","5","6","7","-","8","9","a","b","-","c","d","e","f","0","1","2","3","4","5","6","7">>
      [] i = 3 -> <<"n","o","t","-","a","-","u","u","i","d">>
      [] i = 4 -> <<"a","b","-","c","d","e","f","0","1","2","3","4","5","6","7","8","9","a","b","c","d","e","f","0","1","2","3","4","5","6","7","8","9">>
      [] i = 5 -> <<"3","a","1","b","c","d","-","e","f","0","1","-","2","3","4","5","6","7","8","9","a","b","c","d","e","f","0","1","2","3","4","5","6","7">>
      [] i = 6 -> <<"0","1","2","3","4","5","6","7","8","9","a","b","c","d","e","f","0","1","2","3","4","5","6","7","8","9","a","b","c","d","e","f">>
      [] i = 7 -> <<"a","-","-","b","-","c","d","e","f","0","1","2","3","4","5","6","7","8","9","a","b","c","d","e","f","0","1","2","3","4","5","6","7","8","9">>

\* ids the cache machine is driven with: two well-formed, one malformed
CacheIds == {1, 2, 3}
\* ids the container derivation is driven with
AllIds == 1..7

\* image_info dictionaries: with an 'id' key, or without one
ImageInfo(ids) == {[id |-> i] : i \in ids} \cup {[name |-> "cirros"]}

\* oslo_utils.uuidutils.is_uuid_like: 32 hex digits once dashes are dropped
\* and the text is lowercased
is_uuid_like(val) ==
    LET s == Lower(val)
    IN  /\ Len(s) - Count(s, "-") = 32
        /\ \A k \in 1..Len(s) : s[k] = "-" \/ s[k] \in HexLower

--------------------------------------------------------------------------
(* Configuration ([glance] options) and collaborators *)

NoSeed == <<>>          \* swift_store_multiple_containers_seed is None
MaxSeed == 32
AllSeeds == {NoSeed} \cup {<<n>> : n \in -1..(MaxSeed + 1)}

swift_container == <<"g","l","a","n","c","e">>
swift_api_version == "v1"

NoEndpoint == <<>>      \* a falsy endpoint URL ('' or None)
ConfEndpoint == <<"http://conf.example">>
CatalogEndpoint == <<"http://catalog.example", "/v1/AUTH_", "tenant">>
NoKey == ""             \* a falsy key ('' or None)
NoAccount == ""
project_id == "proj"

Durations == 0..MaxDuration
Delays == 0..MaxDelay

\* the options the cache machine is reconfigured over
CacheOptions ==
    [swift_temp_url_duration |-> Durations,
     swift_temp_url_expected_download_start_delay |-> Delays,
     swift_temp_url_cache_enabled |-> BOOLEAN]

\* what the service catalog (adapter.get_endpoint()) and the Swift account
\* metadata (head_account()) answer during one call
Envs ==
    [endpoint : {NoEndpoint, CatalogEndpoint},
     temp_url_key : {NoKey, "account-key"}]

NoUrl == [none |-> TRUE]
NoContainer == <<>>

--------------------------------------------------------------------------
(* The signing primitive and URL handling *)

\* hmac over "method\nexpires\npath" with the key
Hmac(key, method, expires, path) == <<key, method, expires, path>>

\* swiftclient.utils.generate_temp_url at clock value t:
\* path?temp_url_sig=<sig>&temp_url_expires=<expires>
generate_temp_url(path, seconds, key, method, t) ==
    LET expires == t + seconds
    IN  [path |-> path,
         query |-> << <<"temp_url_sig", Hmac(key, method, expires, path)>>,
                      <<"temp_url_expires", IntToStr(expires)>> >>]

\* '{endpoint_url}{url_path}'.format(...)
FormatTempUrl(endpoint, url_path) ==
    [endpoint |-> endpoint, path |-> url_path.path, query |-> url_path.query]

\* dict(urlparse.parse_qsl(urlparse.urlparse(temp_url).query))[name]:
\* the value of the last pair with that name
QueryValue(temp_url, name) ==
    LET q == temp_url.query
        k == CHOOSE j \in 1..Len(q) :
                 /\ q[j][1] = name
                 /\ \A m \in (j + 1)..Len(q) : q[m][1] # name
    IN  q[k][2]

\* re.sub('/v1/AUTH_[^/]+/?$', '', endpoint_url) on a tokenised URL
StripAccount(endpoint_url) ==
    LET n == Len(endpoint_url)
    IN  IF n >= 3 /\ endpoint_url[n] = "/" /\ endpoint_url[n - 2] = "/v1/AUTH_"
        THEN SubSeq(endpoint_url, 1, n - 3)
        ELSE IF n >= 2 /\ endpoint_url[n - 1] = "/v1/AUTH_"
        THEN SubSeq(endpoint_url, 1, n - 2)
        ELSE endpoint_url

\* TempUrlCacheElement
TempUrlCacheElement(url, url_expires_at) ==
    [url |-> url, url_expires_at |-> url_expires_at]

--------------------------------------------------------------------------
(* GlanceImageService *)

\* variant: the duration is not compared with the start delay
_validate_temp_url_config_SeedOnly(conf) ==
    LET seed_num_chars == conf.swift_store_multiple_containers_seed
    IN  IF seed_num_chars = NoSeed \/ seed_num_chars[1] < 0
               \/ seed_num_chars[1] > MaxSeed
        THEN FALSE
        ELSE TRUE

\* variant: the upper limit of the seed is itself rejected
_validate_temp_url_config_Exclusive(conf) ==
    LET seed_num_chars == conf.swift_store_multiple_containers_seed
    IN  IF conf.swift_temp_url_duration
               < conf.swift_temp_url_expected_download_start_delay
        THEN FALSE
        ELSE IF seed_num_chars = NoSeed \/ seed_num_chars[1] < 0
                    \/ seed_num_chars[1] >= MaxSeed
        THEN FALSE
        ELSE TRUE

\* _validate_temp_url_config: TRUE when it returns, FALSE when it raises
\* InvalidParameterValue
_validate_temp_url_config(conf) ==
    LET seed_num_chars == conf.swift_store_multiple_containers_seed
    IN  IF conf.swift_temp_url_duration
               < conf.swift_temp_url_expected_download_start_delay
        THEN FALSE
        ELSE IF seed_num_chars = NoSeed \/ seed_num_chars[1] < 0
                    \/ seed_num_chars[1] > MaxSeed
        THEN FALSE
        ELSE TRUE

\* variant: a seed of 0 is treated as sharded mode too
_get_swift_container_ZeroSharded(conf, image_id) ==
    LET seed_num_chars == conf.swift_store_multiple_containers_seed[1]
    IN  IF seed_num_chars >= 0
        THEN LET id == Lower(image_id)
                 num_dashes == Count(Prefix(id, seed_num_chars), "-")
                 num_chars == seed_num_chars + num_dashes
                 name_suffix == Prefix(id, num_chars)
             IN  swift_container \o <<"_">> \o name_suffix
        ELSE swift_container

\* variant: the image id is not lowercased
_get_swift_container_NoLower(conf, image_id) ==
    LET seed_num_chars == conf.swift_store_multiple_containers_seed[1]
    IN  IF seed_num_chars > 0
        THEN LET id == image_id
                 num_dashes == Count(Prefix(id, seed_num_chars), "-")
                 num_chars == seed_num_chars + num_dashes
                 name_suffix == Prefix(id, num_chars)
             IN  swift_container \o <<"_">> \o name_suffix
        ELSE swift_container

\* variant: the window is not extended by the dashes it contains
_get_swift_container_NoExtension(conf, image_id) ==
    LET seed_num_chars == conf.swift_store_multiple_containers_seed[1]
    IN  IF seed_num_chars > 0
        THEN LET id == Lower(image_id)
                 name_suffix == Prefix(id, seed_num_chars)
             IN  swift_container \o <<"_">> \o name_suffix
        ELSE swift_container

\* _get_swift_container, on the text of the image id
_get_swift_container(conf, image_id) ==
    LET seed_num_chars == conf.swift_store_multiple_containers_seed[1]
    IN  IF seed_num_chars > 0
        THEN LET id == Lower(image_id)
                 num_dashes == Count(Prefix(id, seed_num_chars), "-")
                 num_chars == seed_num_chars + num_dashes
                 name_suffix == Prefix(id, num_chars)
             IN  swift_container \o <<"_">> \o name_suffix
        ELSE swift_container

\* variant: the sweep compares with the clock alone and forgets the
\* expected download start delay
_remove_expired_items_IgnoringDelay(cache, conf, t) ==
    LET max_valid_time == t
        keys_to_remove ==
            {k \in DOMAIN cache : cache[k].url_expires_at < max_valid_time}
    IN  [k \in (DOMAIN cache) \ keys_to_remove |-> cache[k]]

\* variant: the sweep also deletes the entries that expire exactly at the
\* bound
_remove_expired_items_Inclusive(cache, conf, t) ==
    LET max_valid_time ==
            t + conf.swift_temp_url_expected_download_start_delay
        keys_to_remove ==
            {k \in DOMAIN cache : cache[k].url_expires_at <= max_valid_time}
    IN  [k \in (DOMAIN cache) \ keys_to_remove |-> cache[k]]

\* _remove_expired_items_from_cache: the cache after the sweep at clock t
_remove_expired_items_from_cache(cache, conf, t) ==
    LET max_valid_time ==
            t + conf.swift_temp_url_expected_download_start_delay
        keys_to_remove ==
            {k \in DOMAIN cache : cache[k].url_expires_at < max_valid_time}
    IN  [k \in (DOMAIN cache) \ keys_to_remove |-> cache[k]]

\* variant: the lookup is skipped, every call signs (and stores) anew
_generate_temp_url_AlwaysSign(cache, conf, t, path, seconds, key, method, endpoint, image_id) ==
    LET enabled == conf.swift_temp_url_cache_enabled
        swept == IF enabled
                 THEN _remove_expired_items_from_cache(cache, conf, t)
                 ELSE cache
        temp_url == FormatTempUrl(endpoint,
                        generate_temp_url(path, seconds, key, method, t))
        exp_time_str == QueryValue(temp_url, "temp_url_expires")
        stored == [k \in (DOMAIN swept) \cup {image_id} |->
                     IF k = image_id
                     THEN TempUrlCacheElement(temp_url,
                              StrToInt(exp_time_str))
                     ELSE swept[k]]
    IN  [url |-> temp_url,
         cache |-> IF enabled THEN stored ELSE swept,
         evicted |-> (DOMAIN cache) \ (DOMAIN swept),
         signed |-> 1, hit |-> FALSE]

\* variant: a cached URL is reused only when it was issued for the endpoint
\* and the path of the present call
_generate_temp_url_SameParams(cache, conf, t, path, seconds, key, method, endpoint, image_id) ==
    LET enabled == conf.swift_temp_url_cache_enabled
        swept == IF enabled
                 THEN _remove_expired_items_from_cache(cache, conf, t)
                 ELSE cache
    IN  IF /\ enabled
           /\ image_id \in DOMAIN swept
           /\ swept[image_id].url.endpoint = endpoint
           /\ swept[image_id].url.path = path
        THEN [url |-> swept[image_id].url, cache |-> swept,
              evicted |-> (DOMAIN cache) \ (DOMAIN swept),
              signed |-> 0, hit |-> TRUE]
        ELSE LET temp_url == FormatTempUrl(endpoint,
                     generate_temp_url(path, seconds, key, method, t))
                 exp_time_str == QueryValue(temp_url, "temp_url_expires")
                 stored == [k \in (DOMAIN swept) \cup {image_id} |->
                              IF k = image_id
                              THEN TempUrlCacheElement(temp_url,
                                       StrToInt(exp_time_str))
                              ELSE swept[k]]
             IN  [url |-> temp_url,
                  cache |-> IF enabled THEN stored ELSE swept,
                  evicted |-> (DOMAIN cache) \ (DOMAIN swept),
                  signed |-> 1, hit |-> FALSE]

\* variant: the element is stored with the clock value of the call instead
\* of the expiry read back from the URL
_generate_temp_url_ClockExpiry(cache, conf, t, path, seconds, key, method, endpoint, image_id) ==
    LET enabled == conf.swift_temp_url_cache_enabled
        swept == IF enabled
                 THEN _remove_expired_items_from_cache(cache, conf, t)
                 ELSE cache
    IN  IF enabled /\ image_id \in DOMAIN swept
        THEN [url |-> swept[image_id].url, cache |-> swept,
              evicted |-> (DOMAIN cache) \ (DOMAIN swept),
              signed |-> 0, hit |-> TRUE]
        ELSE LET temp_url == FormatTempUrl(endpoint,
                     generate_temp_url(path, seconds, key, method, t))
                 stored == [k \in (DOMAIN swept) \cup {image_id} |->
                              IF k = image_id
                              THEN TempUrlCacheElement(temp_url, t)
                              ELSE swept[k]]
             IN  [url |-> temp_url,
                  cache |-> IF enabled THEN stored ELSE swept,
                  evicted |-> (DOMAIN cache) \ (DOMAIN swept),
                  signed |-> 1, hit |-> FALSE]

\* variant: the new URL is stored whether or not caching is enabled
_generate_temp_url_StoreAlways(cache, conf, t, path, seconds, key, method, endpoint, image_id) ==
    LET enabled == conf.swift_temp_url_cache_enabled
        swept == IF enabled
                 THEN _remove_expired_items_from_cache(cache, conf, t)
                 ELSE cache
    IN  IF enabled /\ image_id \in DOMAIN swept
        THEN [url |-> swept[image_id].url, cache |-> swept,
              evicted |-> (DOMAIN cache) \ (DOMAIN swept),
              signed |-> 0, hit |-> TRUE]
        ELSE LET temp_url == FormatTempUrl(endpoint,
                     generate_temp_url(path, seconds, key, method, t))
                 exp_time_str == QueryValue(temp_url, "temp_url_expires")
                 stored == [k \in (DOMAIN swept) \cup {image_id} |->
                              IF k = image_id
                              THEN TempUrlCacheElement(temp_url,
                                       StrToInt(exp_time_str))
                              ELSE swept[k]]
             IN  [url |-> temp_url,
                  cache |-> stored,
                  evicted |-> (DOMAIN cache) \ (DOMAIN swept),
                  signed |-> 1, hit |-> FALSE]

\* _generate_temp_url: the URL returned, the cache left behind, the keys the
\* sweep deleted, the number of calls of the signing primitive and whether
\* the URL came from the cache
_generate_temp_url(cache, conf, t, path, seconds, key, method, endpoint, image_id) ==
    LET enabled == conf.swift_temp_url_cache_enabled
        swept == IF enabled
                 THEN _remove_expired_items_from_cache(cache, conf, t)
                 ELSE cache
    IN  IF enabled /\ image_id \in DOMAIN swept
        THEN [url |-> swept[image_id].url, cache |-> swept,
              evicted |-> (DOMAIN cache) \ (DOMAIN swept),
              signed |-> 0, hit |-> TRUE]
        ELSE LET temp_url == FormatTempUrl(endpoint,
                     generate_temp_url(path, seconds, key, method, t))
                 exp_time_str == QueryValue(temp_url, "temp_url_expires")
                 stored == [k \in (DOMAIN swept) \cup {image_id} |->
                              IF k = image_id
                              THEN TempUrlCacheElement(temp_url,
                                       StrToInt(exp_time_str))
                              ELSE swept[k]]
             IN  [url |-> temp_url,
                  cache |-> IF enabled THEN stored ELSE swept,
                  evicted |-> (DOMAIN cache) \ (DOMAIN swept),
                  signed |-> 1, hit |-> FALSE]

\* variant: the error path throws the cached URLs away
Raise_DroppingCache(exception, cache, container, consulted) ==
    [outcome |-> exception, url |-> NoUrl, cache |-> <<>>,
     container |-> container, evicted |-> DOMAIN cache, signed |-> 0,
     hit |-> FALSE, consulted |-> consulted]

\* an exception leaving swift_temp_url; consulted lists the collaborators
\* the call had asked by then
Raise(exception, cache, container, consulted) ==
    [outcome |-> exception, url |-> NoUrl, cache |-> cache,
     container |-> container, evicted |-> {}, signed |-> 0,
     hit |-> FALSE, consulted |-> consulted]

\* the endpoint URL: the option, else the service catalog
ResolveEndpoint(conf, env) ==
    IF conf.swift_endpoint_url # NoEndpoint
    THEN conf.swift_endpoint_url
    ELSE env.endpoint

\* the account: the option, else 'AUTH_' + the project of the session
ResolveAccount(conf) ==
    IF conf.swift_account # NoAccount
    THEN conf.swift_account
    ELSE "AUTH_" \o project_id

\* variant: the header value is turned into text, a missing header into
\* the text 'None'
ResolveKey_Str(conf, env) ==
    IF conf.swift_temp_url_key # NoKey
    THEN conf.swift_temp_url_key
    ELSE IF env.temp_url_key = NoKey THEN "None" ELSE env.temp_url_key

\* the key: the option, else the x-account-meta-temp-url-key header
ResolveKey(conf, env) ==
    IF conf.swift_temp_url_key # NoKey
    THEN conf.swift_temp_url_key
    ELSE env.temp_url_key

\* the collaborators asked for the endpoint: the service catalog when the
\* option is unset
EndpointLookups(conf) ==
    IF conf.swift_endpoint_url # NoEndpoint THEN <<>> ELSE <<"catalog">>

\* the collaborators asked for the account and the key: the session's
\* auth_ref when the account option is unset, then head_account when the
\* key option is unset
KeyLookups(conf) ==
    (IF conf.swift_account # NoAccount THEN <<>> ELSE <<"auth_ref">>)
    \o (IF conf.swift_temp_url_key # NoKey THEN <<>> ELSE <<"head_account">>)

\* variant: the cache is consulted before the credentials are resolved
swift_temp_url_CacheFirst(image_info, conf, env, t, cache) ==
    IF ~_validate_temp_url_config(conf)
    THEN Raise("InvalidParameterValue", cache, NoContainer, <<>>)
    ELSE IF "id" \notin DOMAIN image_info
              \/ ~is_uuid_like(IdText(image_info.id))
    THEN Raise("ImageUnacceptable", cache, NoContainer, <<>>)
    ELSE
    LET image_id == image_info.id
        container == _get_swift_container(conf, IdText(image_id))
        endpoint_url == ResolveEndpoint(conf, env)
        enabled == conf.swift_temp_url_cache_enabled
        swept == IF enabled
                 THEN _remove_expired_items_from_cache(cache, conf, t)
                 ELSE cache
    IN  IF enabled /\ image_id \in DOMAIN swept
        THEN [outcome |-> "ok", url |-> swept[image_id].url,
              cache |-> swept, container |-> container,
              evicted |-> (DOMAIN cache) \ (DOMAIN swept),
              signed |-> 0, hit |-> TRUE, consulted |-> <<>>]
        ELSE IF endpoint_url = NoEndpoint
        THEN Raise("MissingParameterValue", cache, container,
                   EndpointLookups(conf))
        ELSE
        LET account == ResolveAccount(conf)
            key == ResolveKey(conf, env)
            consulted == EndpointLookups(conf) \o KeyLookups(conf)
        IN  IF key = NoKey
            THEN Raise("MissingParameterValue", cache, container, consulted)
            ELSE
            LET url_path == [api_version |-> swift_api_version,
                             account |-> account,
                             container |-> container,
                             object_id |-> image_id]
                g == _generate_temp_url(cache, conf, t, url_path,
                         conf.swift_temp_url_duration, key, "GET",
                         StripAccount(endpoint_url), image_id)
            IN  [outcome |-> "ok", url |-> g.url, cache |-> g.cache,
                 container |-> container, evicted |-> g.evicted,
                 signed |-> g.signed, hit |-> g.hit,
                 consulted |-> consulted]

\* variant: the endpoint is resolved before the image id is examined
swift_temp_url_CredentialsFirst(image_info, conf, env, t, cache) ==
    IF ~_validate_temp_url_config(conf)
    THEN Raise("InvalidParameterValue", cache, NoContainer, <<>>)
    ELSE IF ResolveEndpoint(conf, env) = NoEndpoint
    THEN Raise("MissingParameterValue", cache, NoContainer,
               EndpointLookups(conf))
    ELSE IF "id" \notin DOMAIN image_info
              \/ ~is_uuid_like(IdText(image_info.id))
    THEN Raise("ImageUnacceptable", cache, NoContainer,
               EndpointLookups(conf))
    ELSE
    LET image_id == image_info.id
        container == _get_swift_container(conf, IdText(image_id))
        endpoint_url == ResolveEndpoint(conf, env)
        account == ResolveAccount(conf)
        key == ResolveKey(conf, env)
        consulted == EndpointLookups(conf) \o KeyLookups(conf)
    IN  IF key = NoKey
        THEN Raise("MissingParameterValue", cache, container, consulted)
        ELSE
        LET url_path == [api_version |-> swift_api_version,
                         account |-> account,
                         container |-> container,
                         object_id |-> image_id]
            g == _generate_temp_url(cache, conf, t, url_path,
                     conf.swift_temp_url_duration, key, "GET",
                     StripAccount(endpoint_url), image_id)
        IN  [outcome |-> "ok", url |-> g.url, cache |-> g.cache,
             container |-> container, evicted |-> g.evicted,
             signed |-> g.signed, hit |-> g.hit,
             consulted |-> consulted]

\* swift_temp_url(image_info) run on configuration conf, collaborators env,
\* clock t and cache contents cache
swift_temp_url(image_info, conf, env, t, cache) ==
    IF ~_validate_temp_url_config(conf)
    THEN Raise("InvalidParameterValue", cache, NoContainer, <<>>)
    ELSE IF "id" \notin DOMAIN image_info
              \/ ~is_uuid_like(IdText(image_info.id))
    THEN Raise("ImageUnacceptable", cache, NoContainer, <<>>)
    ELSE
    LET image_id == image_info.id
        container == _get_swift_container(conf, IdText(image_id))
        endpoint_url == ResolveEndpoint(conf, env)
    IN  IF endpoint_url = NoEndpoint
        THEN Raise("MissingParameterValue", cache, container,
                   EndpointLookups(conf))
        ELSE
        LET account == ResolveAccount(conf)
            key == ResolveKey(conf, env)
            consulted == EndpointLookups(conf) \o KeyLookups(conf)
        IN  IF key = NoKey
            THEN Raise("MissingParameterValue", cache, container, consulted)
            ELSE
            LET url_path == [api_version |-> swift_api_version,
                             account |-> account,
                             container |-> container,
                             object_id |-> image_id]
                g == _generate_temp_url(cache, conf, t, url_path,
                         conf.swift_temp_url_duration, key, "GET",
                         StripAccount(endpoint_url), image_id)
            IN  [outcome |-> "ok", url |-> g.url, cache |-> g.cache,
                 container |-> container, evicted |-> g.evicted,
                 signed |-> g.signed, hit |-> g.hit,
                 consulted |-> consulted]

--------------------------------------------------------------------------
(* The state machine *)

NoIssue == [i \in CacheIds |-> NoUrl]

NoCall == [image_info |-> [name |-> "none"], outcome |-> "none",
           url |-> NoUrl, container |-> NoContainer, evicted |-> {},
           signed |-> 0, hit |-> FALSE, consulted |-> <<>>]

\* the worker threads of the process
Threads == {"w1", "w2", "w3"}

\* a worker that is not inside _generate_temp_url
Idle ==
    [pc |-> "idle", image_id |-> 0, max_valid_time |-> 0, size |-> 0,
     visited |-> {}, keys_to_remove |-> <<>>, temp_url |-> NoUrl,
     result |-> NoUrl, error |-> "none", missed |-> FALSE,
     overlap |-> FALSE, wrote_last |-> FALSE]

NoThreads == [w \in Threads |-> Idle]

\* the option defaults of ironic.conf.glance, with a duration that fits
\* the clock of the model
DefaultConf ==
    [swift_temp_url_duration |-> MaxDuration,
     swift_temp_url_expected_download_start_delay |-> 0,
     swift_store_multiple_containers_seed |-> <<0>>,
     swift_temp_url_cache_enabled |-> FALSE,
     swift_endpoint_url |-> NoEndpoint,
     swift_temp_url_key |-> NoKey,
     swift_account |-> NoAccount]

Init ==
    /\ CONF = DefaultConf
    /\ now = T0
    /\ _cache = <<>>
    /\ last = NoCall
    /\ issued = NoIssue
    /\ threads = NoThreads

\* a caller runs swift_temp_url(image_info) to completion while the
\* collaborators answer env
Call(image_info, env) ==
    LET r == swift_temp_url(image_info, CONF, env, now, _cache)
    IN  /\ _cache' = r.cache
        /\ last' = [image_info |-> image_info, outcome |-> r.outcome,
                    url |-> r.url, container |-> r.container,
                    evicted |-> r.evicted, signed |-> r.signed,
                    hit |-> r.hit, consulted |-> r.consulted]
        /\ issued' = IF r.outcome = "ok" /\ CONF.swift_temp_url_cache_enabled
                     THEN [issued EXCEPT ![image_info.id] = r.url]
                     ELSE issued
        /\ UNCHANGED <<CONF, now, threads>>

CallCached ==
    \E image_info \in ImageInfo(CacheIds) : \E env \in Envs :
        Call(image_info, env)

\* the wall clock advances
Tick ==
    /\ now < T0 + MaxTime
    /\ now' = now + 1
    /\ last' = NoCall
    /\ UNCHANGED <<CONF, _cache, issued, threads>>

\* an operator changes one [glance] option
Reconfigure(options) ==
    \E opt \in DOMAIN options :
      \E v \in options[opt] :
        /\ CONF[opt] # v
        /\ CONF' = [CONF EXCEPT ![opt] = v]
        /\ issued' = NoIssue
        /\ last' = NoCall
        /\ UNCHANGED <<now, _cache, threads>>

ReconfigureCache == Reconfigure(CacheOptions)

Next == CallCached \/ Tick \/ ReconfigureCache

Spec == Init /\ [][Next]_vars

--------------------------------------------------------------------------
(* The signing parameters: the service starts under any combination of    *)
(* seed, endpoint, key and account options and serves one call, made with *)
(* any identifier; the cache stays disabled and the clock stands still.   *)

SigningConfs ==
    {[DefaultConf EXCEPT
        !.swift_temp_url_duration = o.swift_temp_url_duration,
        !.swift_temp_url_expected_download_start_delay =
            o.swift_temp_url_expected_download_start_delay,
        !.swift_store_multiple_containers_seed =
            o.swift_store_multiple_containers_seed,
        !.swift_endpoint_url = o.swift_endpoint_url,
        !.swift_temp_url_key = o.swift_temp_url_key,
        !.swift_account = o.swift_account] :
     o \in [swift_temp_url_duration : Durations,
            swift_temp_url_expected_download_start_delay : Delays,
            swift_store_multiple_containers_seed : AllSeeds,
            swift_endpoint_url : {NoEndpoint, ConfEndpoint},
            swift_temp_url_key : {NoKey, "conf-key"},
            swift_account : {NoAccount, "AUTH_conf"}]}

InitParams ==
    /\ CONF \in SigningConfs
    /\ now = T0
    /\ _cache = <<>>
    /\ last = NoCall
    /\ issued = NoIssue
    /\ threads = NoThreads

CallAny ==
    /\ last = NoCall
    /\ \E image_info \in ImageInfo(AllIds) : \E env \in Envs :
           Call(image_info, env)

NextParams == CallAny

SpecParams == InitParams /\ [][NextParams]_vars

--------------------------------------------------------------------------
(* The shared cache: _cache is an attribute of the class, so every service *)
(* instance of the process reads and writes the same mapping.  The cache   *)
(* is enabled, callers ask for one image, and between calls an operator    *)
(* changes the options that go into the signature.                         *)

SigningOptions ==
    [swift_temp_url_duration |-> Durations,
     swift_store_multiple_containers_seed |-> {<<0>>, <<3>>},
     swift_endpoint_url |-> {NoEndpoint, ConfEndpoint},
     swift_temp_url_key |-> {NoKey, "conf-key"},
     swift_account |-> {NoAccount, "AUTH_conf"}]

InitShared ==
    /\ CONF = [DefaultConf EXCEPT !.swift_temp_url_cache_enabled = TRUE]
    /\ now = T0
    /\ _cache = <<>>
    /\ last = NoCall
    /\ issued = NoIssue
    /\ threads = NoThreads

CallShared ==
    \E image_info \in ImageInfo({1}) : \E env \in Envs :
        Call(image_info, env)

ReconfigureSigning == Reconfigure(SigningOptions)

NextShared == CallShared \/ ReconfigureSigning

SpecShared == InitShared /\ [][NextShared]_vars

--------------------------------------------------------------------------
(* Concurrent callers.  The code takes no lock, so worker threads that run *)
(* _generate_temp_url at the same time interleave statement by statement:  *)
(* the clock read and the opening of the scan, each step of the scan over  *)
(* self._cache.items(), each 'del self._cache[k]', the membership test,    *)
(* the read of the cached element, the signing and the insert.  Each       *)
(* worker serves one call, for an image whose options and credentials pass *)
(* every check of swift_temp_url; the cache may hold what earlier calls    *)
(* have left in it.                                                        *)

ConcIds == {1, 2}

ConcConf ==
    [DefaultConf EXCEPT !.swift_temp_url_cache_enabled = TRUE,
                        !.swift_temp_url_duration = MaxDelay,
                        !.swift_temp_url_expected_download_start_delay =
                            MaxDelay]

ConcEnv == [endpoint |-> CatalogEndpoint, temp_url_key |-> "account-key"]

\* the element an earlier call for image_id, made at clock t, has stored
PriorElement(image_id, t) ==
    swift_temp_url([id |-> image_id], ConcConf, ConcEnv, t, <<>>)
        .cache[image_id]

\* the caches earlier calls can have left: per image nothing, an element
\* stored one second ago or an element stored just now
PriorCaches ==
    UNION { { [i \in S |-> PriorElement(i, T0 - age[i])] :
                  age \in [S -> {0, 1}] } :
            S \in SUBSET ConcIds }

InitConc ==
    /\ CONF = ConcConf
    /\ now = T0
    /\ _cache \in PriorCaches
    /\ last = NoCall
    /\ issued = NoIssue
    /\ threads = NoThreads

\* the element the insert of lines 84-89 puts under image_id
CacheElementOf(temp_url) ==
    TempUrlCacheElement(temp_url,
        StrToInt(QueryValue(temp_url, "temp_url_expires")))

\* self._cache[image_id] = TempUrlCacheElement(...)
CacheStore(cache, image_id, temp_url) ==
    [k \in (DOMAIN cache) \cup {image_id} |->
        IF k = image_id THEN CacheElementOf(temp_url) ELSE cache[k]]

\* del self._cache[k]
CacheDel(cache, k) == [j \in (DOMAIN cache) \ {k} |-> cache[j]]

\* an exception leaves the call of worker w
ThreadRaise(w, exception) ==
    threads' = [threads EXCEPT ![w].pc = "raised", ![w].error = exception]

\* worker w enters _generate_temp_url for image_id: the cache is enabled,
\* so it reads the clock for max_valid_time and opens the scan over
\* self._cache.items()
Enter(w, image_id) ==
    /\ threads[w].pc = "idle"
    /\ swift_temp_url([id |-> image_id], CONF, ConcEnv, now, <<>>).outcome
          = "ok"
    /\ CONF.swift_temp_url_cache_enabled
    /\ threads' = [threads EXCEPT ![w] =
          [Idle EXCEPT
              !.pc = "scan",
              !.image_id = image_id,
              !.max_valid_time = now
                  + CONF.swift_temp_url_expected_download_start_delay,
              !.size = Cardinality(DOMAIN _cache)]]
    /\ UNCHANGED <<CONF, now, _cache, last, issued>>

\* one step of the list comprehension: the iterator raises RuntimeError
\* when the dictionary changed size since the scan was opened, ends when
\* no key is left, and else yields a key that is tested against
\* max_valid_time
ScanNext(w) ==
    LET th == threads[w]
        left == (DOMAIN _cache) \ th.visited
    IN  /\ th.pc = "scan"
        /\ IF Cardinality(DOMAIN _cache) # th.size
           THEN ThreadRaise(w, "RuntimeError")
           ELSE IF left = {}
           THEN threads' = [threads EXCEPT ![w].pc = "delete",
                                           ![w].visited = {},
                                           ![w].size = 0,
                                           ![w].max_valid_time = 0]
           ELSE \E k \in left :
                  threads' = [threads EXCEPT
                      ![w].visited = @ \cup {k},
                      ![w].keys_to_remove =
                          IF _cache[k].url_expires_at < th.max_valid_time
                          THEN Append(@, k)
                          ELSE @]
        /\ UNCHANGED <<CONF, now, _cache, last, issued>>

\* one round of 'for k in keys_to_remove: del self._cache[k]': del raises
\* KeyError when the key is not in the dictionary
Delete(w) ==
    LET th == threads[w]
    IN  /\ th.pc = "delete"
        /\ IF th.keys_to_remove = <<>>
           THEN /\ threads' = [threads EXCEPT ![w].pc = "lookup"]
                /\ UNCHANGED _cache
           ELSE LET k == Head(th.keys_to_remove)
                IN  IF k \notin DOMAIN _cache
                    THEN /\ ThreadRaise(w, "KeyError")
                         /\ UNCHANGED _cache
                    ELSE /\ _cache' = CacheDel(_cache, k)
                         /\ threads' = [threads EXCEPT
                                ![w].keys_to_remove = Tail(@)]
        /\ UNCHANGED <<CONF, now, last, issued>>

\* the workers that have missed on image_id and not inserted yet
Missing(image_id) ==
    {v \in Threads : /\ threads[v].image_id = image_id
                     /\ threads[v].pc \in {"sign", "store"}}

\* 'if image_id in self._cache': on a miss the worker goes on to sign;
\* overlap marks the workers that missed on one image at the same time
Lookup(w) ==
    LET th == threads[w]
    IN  /\ th.pc = "lookup"
        /\ IF th.image_id \in DOMAIN _cache
           THEN threads' = [threads EXCEPT ![w].pc = "read"]
           ELSE threads' = [v \in Threads |->
                   IF v = w
                   THEN [th EXCEPT !.pc = "sign", !.missed = TRUE,
                                   !.overlap = Missing(th.image_id) # {}]
                   ELSE IF v \in Missing(th.image_id)
                   THEN [threads[v] EXCEPT !.overlap = TRUE]
                   ELSE threads[v]]
        /\ UNCHANGED <<CONF, now, _cache, last, issued>>

\* 'return self._cache[image_id].url': the subscript raises KeyError when
\* the key is not in the dictionary
Read(w) ==
    LET th == threads[w]
    IN  /\ th.pc = "read"
        /\ IF th.image_id \notin DOMAIN _cache
           THEN ThreadRaise(w, "KeyError")
           ELSE threads' = [threads EXCEPT
                   ![w].pc = "done",
                   ![w].result = _cache[th.image_id].url]
        /\ UNCHANGED <<CONF, now, _cache, last, issued>>

\* swift_utils.generate_temp_url and the formatting of temp_url, with the
\* path, key and endpoint swift_temp_url has resolved
Sign(w) ==
    LET th == threads[w]
        url_path == [api_version |-> swift_api_version,
                     account |-> ResolveAccount(CONF),
                     container |->
                         _get_swift_container(CONF, IdText(th.image_id)),
                     object_id |-> th.image_id]
    IN  /\ th.pc = "sign"
        /\ threads' = [threads EXCEPT
              ![w].pc = "store",
              ![w].temp_url =
                  FormatTempUrl(
                      StripAccount(ResolveEndpoint(CONF, ConcEnv)),
                      generate_temp_url(url_path,
                          CONF.swift_temp_url_duration,
                          ResolveKey(CONF, ConcEnv), "GET", now))]
        /\ UNCHANGED <<CONF, now, _cache, last, issued>>

\* the insert of the new element and the return of temp_url; wrote_last
\* marks the worker whose insert for the image is the latest
Store(w) ==
    LET th == threads[w]
    IN  /\ th.pc = "store"
        /\ _cache' = CacheStore(_cache, th.image_id, th.temp_url)
        /\ threads' = [v \in Threads |->
              IF v = w
              THEN [th EXCEPT !.pc = "done", !.result = th.temp_url,
                              !.wrote_last = TRUE]
              ELSE IF threads[v].image_id = th.image_id
              THEN [threads[v] EXCEPT !.wrote_last = FALSE]
              ELSE threads[v]]
        /\ UNCHANGED <<CONF, now, last, issued>>

WorkerStep ==
    \E w \in Threads :
        \/ \E image_id \in ConcIds : Enter(w, image_id)
        \/ ScanNext(w)
        \/ Delete(w)
        \/ Lookup(w)
        \/ Read(w)
        \/ Sign(w)
        \/ Store(w)

NextConc == WorkerStep \/ Tick

SpecConc == InitConc /\ [][NextConc]_vars

--------------------------------------------------------------------------
(* Properties *)

Delay == CONF.swift_temp_url_expected_download_start_delay
Duration == CONF.swift_temp_url_duration
CacheEnabled == CONF.swift_temp_url_cache_enabled
Seed == CONF.swift_store_multiple_containers_seed

\* the expiry timestamp embedded in a temporary URL
Expiry(url) == StrToInt(QueryValue(url, "temp_url_expires"))

\* image_info carries a well-formed image id
WellFormed(image_info) ==
    "id" \in DOMAIN image_info /\ is_uuid_like(IdText(image_info.id))

\* this step is a run of swift_temp_url, observed in last' (every other
\* step leaves NoCall there)
CallStep == last'.outcome # "none"

\* the image id the call observed in last' was made for
CalledId == last'.image_info.id

\* C1 as stated: a URL returned from the cache belongs to an entry whose
\* url_expires_at is strictly greater than now + expected start delay.
C1_HitStrictlyAfterBound ==
    last.hit =>
        _cache[last.image_info.id].url_expires_at > now + Delay

\* C1 (amended): a URL returned from the cache belongs to an entry whose
\* url_expires_at is greater than or equal to now + expected start delay
\* at the moment of the call; an entry that expires exactly at the bound is
\* still served.
C1_HitNotBeforeBound ==
    last.hit =>
        /\ _cache[last.image_info.id].url = last.url
        /\ _cache[last.image_info.id].url_expires_at >= now + Delay

\* a cache hit on an entry that expires exactly at now + delay
C1_Witness ==
    /\ last.hit
    /\ Delay > 0
    /\ _cache[last.image_info.id].url_expires_at = now + Delay

\* the URL issued for an id is still cached while it is usable
C2_EntryKept ==
    \A i \in CacheIds :
        (issued[i] # NoUrl /\ now + Delay < Expiry(issued[i])) =>
            /\ i \in DOMAIN _cache
            /\ _cache[i].url = issued[i]

\* a call for an id whose issued URL is usable
C2_ReuseStep ==
    ( /\ CallStep
      /\ "id" \in DOMAIN last'.image_info
      /\ issued[CalledId] # NoUrl
      /\ now + Delay < Expiry(issued[CalledId]) ) =>
        /\ last'.outcome \in {"ok", "MissingParameterValue"}
        /\ \A env \in Envs :
              ( /\ env.endpoint # NoEndpoint
                /\ env.temp_url_key # NoKey
                /\ Call(last'.image_info, env) ) => last'.outcome = "ok"
        /\ last'.outcome = "ok" =>
              /\ last'.url = issued[CalledId]
              /\ last'.signed = 0
              /\ last'.hit

\* C2: cache reuse.  While configuration is unchanged since a cache-enabled
\* call handed out a URL for an image id, (a) as long as now + delay is
\* before that URL's expiry the cache still maps the id to that URL,
\* whatever calls for other ids, failed calls and clock ticks happened, and
\* (b) a call for that id made then succeeds when the collaborators still
\* answer with an endpoint and a key (it can fail only for a credential
\* that is no longer resolvable), returns the identical URL and does not
\* call the signing primitive.
C2_CacheReuse == [](C2_EntryKept) /\ [][C2_ReuseStep]_vars

\* a second call for an id returned the URL issued earlier, after a call for
\* the other id was served in between (both ids are cached)
C2_Witness ==
    /\ last.hit
    /\ last.signed = 0
    /\ issued[last.image_info.id] = last.url
    /\ now > T0
    /\ Expiry(last.url) < now + Duration
    /\ now + Delay < Expiry(last.url)
    /\ Cardinality(DOMAIN _cache) = 2

\* a successful cache-enabled call for an id whose entry is stale
C3_StaleStep ==
    ( /\ last'.outcome = "ok"
      /\ CacheEnabled
      /\ CalledId \in DOMAIN _cache
      /\ now + Delay > _cache[CalledId].url_expires_at ) =>
        /\ last'.signed = 1
        /\ ~last'.hit
        /\ CalledId \in last'.evicted
        /\ CalledId \in DOMAIN _cache'
        /\ _cache'[CalledId] # _cache[CalledId]
        /\ _cache'[CalledId]
               = TempUrlCacheElement(last'.url, now + Duration)

\* C3: cache correctness.  A cache-enabled call that reaches issuance for an
\* id whose cached entry has url_expires_at < now + delay calls the signing
\* primitive exactly once, deletes the stale entry and leaves the cache
\* mapping the id to the freshly issued entry.
C3_StaleEntryReplaced == [][C3_StaleStep]_vars

\* a call found the entry of its own id stale, swept it and signed anew
C3_Witness ==
    /\ last.outcome = "ok"
    /\ last.image_info.id \in last.evicted
    /\ last.signed = 1
    /\ _cache[last.image_info.id].url = last.url

\* a hit that changes nothing in the cache
C4_HitStepNoChange == last'.hit => _cache' = _cache

\* C4 as stated: a call that ends in a cache hit leaves the whole cache as
\* it was.
C4_HitLeavesCacheUntouched == [][C4_HitStepNoChange]_vars

\* a hit whose only effect is the sweep
C4_HitStepOnlySweeps ==
    last'.hit =>
        /\ last'.signed = 0
        /\ CalledId \in DOMAIN _cache
        /\ _cache'[CalledId] = _cache[CalledId]
        /\ DOMAIN _cache' \subseteq DOMAIN _cache
        /\ \A k \in DOMAIN _cache' : _cache'[k] = _cache[k]
        /\ \A k \in DOMAIN _cache :
               k \notin DOMAIN _cache'
                   <=> _cache[k].url_expires_at < now + Delay
        /\ CalledId \notin last'.evicted

\* C4 (amended): a call that ends in a cache hit does not call the signing
\* primitive, inserts or replaces nothing and leaves the hit entry and every
\* entry that is not expired as they were; its only effect on the cache is
\* the sweep that precedes the lookup, which deletes exactly the entries
\* (of other ids) whose url_expires_at is earlier than now + delay.
C4_HitOnlySweeps == [][C4_HitStepOnlySweeps]_vars

\* a call ended in a hit and its sweep deleted the entry of another id
C4_Witness ==
    /\ last.hit
    /\ last.evicted # {}
    /\ last.image_info.id \in DOMAIN _cache

\* a call that raises
C5_FailStep ==
    (CallStep /\ last'.outcome # "ok") =>
        /\ _cache' = _cache
        /\ last'.evicted = {}
        /\ last'.url = NoUrl

\* a step that inserts or replaces a cache entry
C5_WriteStep ==
    \A k \in DOMAIN _cache' :
        (k \notin DOMAIN _cache \/ _cache'[k] # _cache[k]) =>
            /\ last'.outcome = "ok"
            /\ CalledId = k
            /\ _cache'[k].url = last'.url

\* every cached entry is a URL issued for its id
C5_EntriesIssued ==
    \A k \in DOMAIN _cache :
        /\ _cache[k].url # NoUrl
        /\ _cache[k].url.path.object_id = k
        /\ _cache[k].url_expires_at = Expiry(_cache[k].url)

\* C5: no partial success.  A call that raises (InvalidParameterValue,
\* ImageUnacceptable or MissingParameterValue) leaves the cache exactly as
\* it was, no insert and no eviction; an entry appears in the cache or
\* changes only in a step of a call for its id that returns that entry's
\* URL successfully; and every cached entry holds a URL for its own id
\* together with the expiry embedded in that URL.
C5_NoPartialSuccess ==
    [](C5_EntriesIssued) /\ [][C5_FailStep /\ C5_WriteStep]_vars

\* a cache-enabled call failed on a missing credential while the cache held
\* an entry that a sweep would have deleted
C5_Witness ==
    /\ last.outcome = "MissingParameterValue"
    /\ CacheEnabled
    /\ \E k \in DOMAIN _cache : _cache[k].url_expires_at < now + Delay

\* C6: whenever swift_temp_url_duration is smaller than the expected start
\* delay, the call raises InvalidParameterValue (ConfigurationError) and the
\* signing primitive is not called, whatever the image info, the answers of
\* the collaborators, the cache flag and the cache contents are.
C6_DurationBelowDelayRejected ==
    (last.outcome # "none" /\ Duration < Delay) =>
        /\ last.outcome = "InvalidParameterValue"
        /\ last.signed = 0
        /\ last.url = NoUrl

\* the call was rejected although caching is enabled and the cache holds a
\* usable entry for the well-formed id it was made for
C6_Witness ==
    /\ last.outcome = "InvalidParameterValue"
    /\ Duration < Delay
    /\ CacheEnabled
    /\ WellFormed(last.image_info)
    /\ last.image_info.id \in DOMAIN _cache
    /\ _cache[last.image_info.id].url_expires_at > now + Delay

\* C7: when swift_store_multiple_containers_seed is unset or outside
\* [0, 32] the call raises InvalidParameterValue before the container is
\* resolved and before any signing; for every seed in 0..32 with
\* duration >= delay the configuration validation raises nothing.
C7_SeedRange ==
    last.outcome # "none" =>
        /\ (Seed = NoSeed \/ Seed[1] < 0 \/ Seed[1] > 32) =>
              /\ last.outcome = "InvalidParameterValue"
              /\ last.container = NoContainer
              /\ last.signed = 0
        /\ (Seed # NoSeed /\ Seed[1] \in 0..32 /\ Duration >= Delay) =>
              last.outcome # "InvalidParameterValue"

\* a call was rejected for a seed of 33 alone: the duration is in order and
\* the image id is well-formed
C7_Witness ==
    /\ last.outcome = "InvalidParameterValue"
    /\ Seed = <<33>>
    /\ Duration >= Delay
    /\ WellFormed(last.image_info)

\* a call during which the endpoint or the key cannot be resolved
C8_MissingStep ==
    \A env \in Envs :
        ( /\ CallStep
          /\ Duration >= Delay
          /\ Seed # NoSeed /\ Seed[1] \in 0..32
          /\ WellFormed(last'.image_info)
          /\ \/ CONF.swift_endpoint_url = NoEndpoint
                   /\ env.endpoint = NoEndpoint
             \/ CONF.swift_temp_url_key = NoKey
                   /\ env.temp_url_key = NoKey
          /\ Call(last'.image_info, env) ) =>
            /\ last'.outcome = "MissingParameterValue"
            /\ last'.signed = 0
            /\ last'.url = NoUrl

\* C8: with a valid configuration and a well-formed image id, the call
\* raises MissingParameterValue (MissingCredential) without signing whenever
\* the endpoint is neither configured nor in the service catalog, key
\* present or not, and whenever the key is neither configured nor in the
\* account metadata, endpoint present or not.
C8_MissingCredentialIndependent == [][C8_MissingStep]_vars

\* the call failed for the endpoint alone: the key is configured
C8_Witness ==
    /\ last.outcome = "MissingParameterValue"
    /\ CONF.swift_endpoint_url = NoEndpoint
    /\ CONF.swift_temp_url_key # NoKey

\* a call made while caching is disabled
C9_DisabledStep ==
    (CallStep /\ ~CacheEnabled) =>
        /\ _cache' = _cache
        /\ last'.evicted = {}
        /\ ~last'.hit
        /\ last'.outcome = "ok" =>
              /\ last'.signed = 1
              /\ Expiry(last'.url) = now + Duration

\* C9: with caching disabled a call leaves the cache unchanged (nothing is
\* swept, nothing stored), never returns a cached URL, and every successful
\* call signs exactly once, the URL expiring at now + duration, even if the
\* cache holds a usable entry for the id.
C9_DisabledCacheUntouched == [][C9_DisabledStep]_vars

\* a call with caching disabled signed a URL other than the usable one the
\* cache still holds for that id
C9_Witness ==
    /\ last.outcome = "ok"
    /\ ~CacheEnabled
    /\ last.signed = 1
    /\ last.image_info.id \in DOMAIN _cache
    /\ _cache[last.image_info.id].url_expires_at > now + Delay
    /\ _cache[last.image_info.id].url # last.url

\* the text of the image id of the observed call, lowercased
CalledText == Lower(IdText(last.image_info.id))

\* the suffix appended to swift_container and '_' in the observed call
Suffix ==
    SubSeq(last.container, Len(swift_container) + 2, Len(last.container))

\* number of dashes among the first Seed characters of the identifier
WindowDashes == Count(Prefix(CalledText, Seed[1]), "-")

\* number of dashes among the characters the extension adds to the window
ExtensionDashes ==
    Count(SubSeq(CalledText, Seed[1] + 1, Seed[1] + WindowDashes), "-")

NonDash(s) == Len(s) - Count(s, "-")

Sharded == last.container # NoContainer /\ Seed[1] > 0

\* C10 as stated: in sharded mode the suffix always contains exactly
\* seed non-separator characters, for every identifier at least as long as
\* the extended window.
C10_SuffixHasSeedNonDashes ==
    (Sharded /\ Len(CalledText) >= Seed[1] + WindowDashes) =>
        NonDash(Suffix) = Seed[1]

\* C10 (amended): in sharded mode the suffix is the first seed + d
\* characters of the lowercased identifier, d being the number of '-' among
\* its first seed characters; it contains seed minus (the number of '-'
\* among the d characters added by the extension) non-separator characters,
\* that is exactly seed only when no '-' falls inside the extension.
C10_SuffixIsExtendedWindow ==
    (Sharded /\ Len(CalledText) >= Seed[1] + WindowDashes) =>
        /\ Suffix = Prefix(CalledText, Seed[1] + WindowDashes)
        /\ Len(Suffix) = Seed[1] + WindowDashes
        /\ NonDash(Suffix) = Seed[1] - ExtensionDashes
        /\ last.container
              = swift_container \o <<"_">> \o Suffix

\* a canonical 8-4-4-4-12 UUID was resolved with a seed whose extension
\* runs over a further dash
C10_Witness ==
    /\ Sharded
    /\ last.image_info.id = 1
    /\ WindowDashes > 0
    /\ ExtensionDashes > 0
    /\ NonDash(Suffix) < Seed[1]

\* C11: in single-container mode (seed 0) the container is swift_container
\* unchanged for every identifier, and the path of the signed URL uses that
\* one container whatever the image id is.
C11_SingleContainer ==
    (last.container # NoContainer /\ Seed = <<0>>) =>
        /\ last.container = swift_container
        /\ last.outcome = "ok" =>
              last.url.path.container = swift_container

\* a URL was signed in single-container mode for an identifier that starts
\* with dashes inside its first characters
C11_Witness ==
    /\ last.outcome = "ok"
    /\ Seed = <<0>>
    /\ last.image_info.id = 7
    /\ last.url.path.container = swift_container

\* a successful cache-enabled call: what its sweep deletes and keeps
C14_SweepStep ==
    (last'.outcome = "ok" /\ CacheEnabled) =>
        /\ last'.evicted =
              {k \in DOMAIN _cache :
                   _cache[k].url_expires_at < now + Delay}
        /\ \A k \in last'.evicted :
              \/ k \notin DOMAIN _cache'
              \/ k = CalledId /\ ~last'.hit /\ _cache'[k] # _cache[k]
        /\ \A k \in (DOMAIN _cache) \ last'.evicted :
              k \in DOMAIN _cache' /\ _cache'[k] = _cache[k]
        /\ CalledId \in last'.evicted => ~last'.hit

\* C14: every cache-enabled call that reaches issuance, hit or miss, first
\* sweeps the whole cache: it deletes every entry, of any id, whose
\* url_expires_at is earlier than now + delay (so a stale entry of the
\* requested id is never served) and no entry whose url_expires_at is not
\* earlier than that bound.
C14_SweepOnEveryCall == [][C14_SweepStep]_vars

\* a call that missed swept the entry of the other id
C14_Witness ==
    /\ last.outcome = "ok"
    /\ CacheEnabled
    /\ ~last.hit
    /\ \E k \in last.evicted : k # last.image_info.id

\* a successful cache-enabled miss
C15_MissStep ==
    (last'.outcome = "ok" /\ CacheEnabled /\ ~last'.hit) =>
        /\ last'.signed = 1
        /\ CalledId \in DOMAIN _cache'
        /\ _cache'[CalledId].url = last'.url
        /\ IntToStr(_cache'[CalledId].url_expires_at)
              = QueryValue(last'.url, "temp_url_expires")
        /\ last'.url.path.object_id = CalledId
        /\ last'.url.endpoint =
              IF CONF.swift_endpoint_url # NoEndpoint
              THEN CONF.swift_endpoint_url
              ELSE <<"http://catalog.example">>
        /\ DOMAIN _cache' =
              ((DOMAIN _cache) \ last'.evicted) \cup {CalledId}
        /\ \A k \in (DOMAIN _cache') \ {CalledId} : _cache'[k] = _cache[k]

\* C15: after a successful cache-enabled miss the cache maps the id to one
\* entry whose url is the URL returned (the endpoint followed by the
\* signer's output) and whose url_expires_at is the timestamp embedded in
\* that URL; a previous entry of the id is replaced and the entries of
\* other ids that survived the sweep are untouched.
C15_MissStoresIssuedUrl == [][C15_MissStep]_vars

\* a miss replaced the stale entry of its id while the entry of the other
\* id survived the sweep
C15_Witness ==
    /\ last.outcome = "ok"
    /\ CacheEnabled
    /\ ~last.hit
    /\ last.image_info.id \in last.evicted
    /\ Cardinality(DOMAIN _cache) = 2
    /\ last.evicted = {last.image_info.id}

\* the reference derivation of the container of an identifier
RefContainer(text, seed) ==
    LET L == Lower(text)
        d == Count(SubSeq(L, 1, Min(seed, Len(L))), "-")
        n == Min(seed + d, Len(L))
    IN  swift_container \o <<"_">> \o SubSeq(L, 1, n)

\* C17: for a seed > 0 the container is swift_container + '_' + P, P being
\* the first seed + d characters of the lowercased identifier and d the
\* number of '-' among its first seed characters; identifiers that differ
\* only in letter case get the same container; '3a1bcd-ef01-...' with seed
\* 3 gives 'glance_3a1' and 'ab-cdef...' with seed 4 gives 'glance_ab-cd';
\* the signed path carries that container.
C17_ContainerReference ==
    Sharded =>
        /\ last.container = RefContainer(IdText(last.image_info.id), Seed[1])
        /\ last.image_info.id \in {1, 2} =>
              last.container = RefContainer(IdText(2), Seed[1])
        /\ (last.image_info.id = 5 /\ Seed = <<3>>) =>
              last.container = <<"g","l","a","n","c","e","_","3","a","1">>
        /\ (last.image_info.id = 4 /\ Seed = <<4>>) =>
              last.container
                 = <<"g","l","a","n","c","e","_","a","b","-","c","d">>
        /\ last.outcome = "ok" =>
              last.url.path.container = last.container

\* the identifier written in capitals was resolved with seed 3
C17_Witness ==
    /\ Sharded
    /\ last.image_info.id = 1
    /\ Seed = <<3>>
    /\ last.container = <<"g","l","a","n","c","e","_","3","a","1">>

\* after a successful cache-enabled call no cached entry is below the bound
C18_PostCall ==
    (last.outcome = "ok" /\ CacheEnabled) =>
        \A k \in DOMAIN _cache :
            _cache[k].url_expires_at >= now + Delay

\* an inserted entry expires at or after insertion time + delay, and an
\* entry issued under the current options is swept only by a call made
\* later than its insertion
C18_FreshStep ==
    /\ (last'.outcome = "ok" /\ CacheEnabled /\ ~last'.hit) =>
          /\ _cache'[CalledId].url_expires_at >= now + Delay
          /\ _cache'[CalledId].url_expires_at = now + Duration
    /\ \A k \in last'.evicted :
          (issued[k] # NoUrl /\ _cache[k].url = issued[k]) =>
              Expiry(issued[k]) - Duration < now

\* C18: because validation (duration >= delay) precedes issuance and the
\* signer sets expiry = signing time + duration, every inserted entry has
\* url_expires_at >= insertion time + delay; right after a successful
\* cache-enabled call no cached entry is earlier than that call's bound,
\* and with unchanged options an entry is never swept by a call made at the
\* instant of its insertion.
C18_InsertedEntriesUsable ==
    [](C18_PostCall) /\ [][C18_FreshStep]_vars

\* a miss stored an entry that expires exactly at the bound of its own call
C18_Witness ==
    /\ last.outcome = "ok"
    /\ CacheEnabled
    /\ ~last.hit
    /\ Delay > 0
    /\ Duration = Delay
    /\ _cache[last.image_info.id].url_expires_at = now + Delay

\* the options pass _validate_temp_url_config
ConfigValid ==
    /\ Duration >= Delay
    /\ Seed # NoSeed
    /\ Seed[1] \in 0..MaxSeed

\* what a call made with collaborators env must end in: the first failing
\* check decides
C16_Expected(env) ==
    IF ~ConfigValid
    THEN /\ last'.outcome = "InvalidParameterValue"
         /\ last'.consulted = <<>>
    ELSE IF ~WellFormed(last'.image_info)
    THEN /\ last'.outcome = "ImageUnacceptable"
         /\ last'.consulted = <<>>
    ELSE IF CONF.swift_endpoint_url = NoEndpoint /\ env.endpoint = NoEndpoint
    THEN /\ last'.outcome = "MissingParameterValue"
         /\ last'.consulted = <<"catalog">>
    ELSE IF CONF.swift_temp_url_key = NoKey /\ env.temp_url_key = NoKey
    THEN /\ last'.outcome = "MissingParameterValue"
         /\ last'.consulted # <<>>
         /\ last'.consulted[Len(last'.consulted)] = "head_account"
    ELSE /\ last'.outcome = "ok"
         /\ last'.signed = 1

\* a step of a call in the order of its checks
C16_OrderStep ==
    CallStep =>
        /\ last'.signed \in {0, 1}
        /\ last'.outcome # "ok" => (last'.signed = 0 /\ last'.url = NoUrl)
        /\ \A env \in Envs :
              Call(last'.image_info, env) => C16_Expected(env)

\* C16: the checks run in a fixed order and the first failing one decides:
\* option validation, then the image id (ImageUnacceptable), then the
\* endpoint (MissingParameterValue), then the key (MissingParameterValue);
\* a missing or malformed id raises ImageUnacceptable before any
\* collaborator is asked for credentials and before signing; the signer is
\* invoked at most once per call and never on a failing call.
C16_CheckOrder == [][C16_OrderStep]_vars

\* a malformed id was rejected while neither endpoint nor key was configured
C16_Witness ==
    /\ last.outcome = "ImageUnacceptable"
    /\ "id" \in DOMAIN last.image_info
    /\ ConfigValid
    /\ CONF.swift_endpoint_url = NoEndpoint
    /\ CONF.swift_temp_url_key = NoKey
    /\ last.consulted = <<>>
    /\ last.signed = 0

\* a cache-enabled call for an id whose cached entry is usable
C19_UsableEntryCall ==
    /\ CallStep
    /\ CacheEnabled
    /\ ConfigValid
    /\ WellFormed(last'.image_info)
    /\ CalledId \in DOMAIN _cache
    /\ _cache[CalledId].url_expires_at >= now + Delay

\* such a call, made while the endpoint or the key cannot be resolved
C19_MissingStep ==
    C19_UsableEntryCall =>
        \A env \in Envs :
            ( /\ \/ /\ CONF.swift_endpoint_url = NoEndpoint
                    /\ env.endpoint = NoEndpoint
                 \/ /\ CONF.swift_temp_url_key = NoKey
                    /\ env.temp_url_key = NoKey
              /\ Call(last'.image_info, env) )
            => /\ last'.outcome = "MissingParameterValue"
               /\ last'.url = NoUrl
               /\ ~last'.hit
               /\ last'.signed = 0
               /\ _cache' = _cache

\* C19: the credentials are resolved before the cache is consulted: a
\* cache-enabled call for an id that has a usable cached entry still raises
\* MissingParameterValue, returns no URL and leaves the cache unchanged,
\* when the endpoint or the key cannot be resolved at that call.
C19_CredentialsBeforeCache == [][C19_MissingStep]_vars

\* a call failed on its credentials although the cache holds a usable entry
\* of its id
C19_Witness ==
    /\ last.outcome = "MissingParameterValue"
    /\ CacheEnabled
    /\ WellFormed(last.image_info)
    /\ last.image_info.id \in DOMAIN _cache
    /\ _cache[last.image_info.id].url_expires_at >= now + Delay
    /\ last.url = NoUrl

\* a successful cache-enabled call for an id whose cached entry is usable
C20_HitStep ==
    ( /\ last'.outcome = "ok"
      /\ CacheEnabled
      /\ CalledId \in DOMAIN _cache
      /\ _cache[CalledId].url_expires_at >= now + Delay )
    => /\ last'.hit
       /\ last'.signed = 0
       /\ last'.url = _cache[CalledId].url
       /\ _cache'[CalledId] = _cache[CalledId]

\* C20: the cache belongs to the process and is keyed by the image id
\* alone: a usable entry is returned unchanged to any later caller asking
\* for the same id, also when the endpoint, account, container, key or
\* duration of the later call differ from those the entry was signed with;
\* what a hit returns depends only on the id, the cache contents, the clock
\* and the delay.
C20_KeyedByIdAlone == [][C20_HitStep]_vars

\* a hit returned a URL signed for another endpoint, account, container,
\* key and duration than the ones in force
C20_Witness ==
    /\ last.outcome = "ok"
    /\ last.hit
    /\ CONF.swift_endpoint_url = ConfEndpoint
    /\ last.url.endpoint # ConfEndpoint
    /\ CONF.swift_account = "AUTH_conf"
    /\ last.url.path.account # "AUTH_conf"
    /\ Seed = <<3>>
    /\ last.url.path.container = swift_container
    /\ CONF.swift_temp_url_key = "conf-key"
    /\ QueryValue(last.url, "temp_url_sig")[1] # "conf-key"
    /\ Expiry(last.url) # now + Duration

\* C12: under any interleaving of concurrent cache-enabled calls no call
\* fails with an error outside InvalidParameterValue, ImageUnacceptable and
\* MissingParameterValue: a sweep never deletes a key another call has
\* removed, a lookup never reads an entry removed between its membership
\* test and its read, and a scan is never disturbed by a concurrent insert.
C12_NoForeignError ==
    \A w \in Threads : threads[w].error = "none"

\* the workers that missed on image i while another worker was missing on it
C13_Overlapping(i) ==
    {w \in Threads : threads[w].image_id = i /\ threads[w].overlap}

\* C13: when two or more cache-enabled calls for one image miss at the same
\* time, each signs and returns its own well-formed URL, and once all of
\* them have returned the cache holds, under that image id, the element
\* written by the call whose insert happened last (as long as that element
\* is not yet due for the sweep).
C13_LastWriterWins ==
    \A i \in ConcIds :
        ( /\ C13_Overlapping(i) # {}
          /\ \A w \in C13_Overlapping(i) : threads[w].pc = "done" )
        => /\ \A w \in C13_Overlapping(i) :
                 /\ threads[w].result = threads[w].temp_url
                 /\ threads[w].result # NoUrl
                 /\ threads[w].result.path.object_id = i
           /\ \A w \in Threads :
                 ( /\ threads[w].image_id = i
                   /\ threads[w].wrote_last
                   /\ CacheElementOf(threads[w].temp_url).url_expires_at
                         >= now + Delay )
                 => /\ i \in DOMAIN _cache
                    /\ _cache[i] = CacheElementOf(threads[w].temp_url)

====
